---- MODULE Spec2Model ----
(***************************************************************************)
(* A model of badgify/recipe.py (BaseRecipe): the badge fetch-or-create,   *)
(* the awarding pre-check, the award diff, the chunked bulk creation and   *)
(* the denormalised users_count sync, over a Badge table and an Award      *)
(* table.  Tables are bags of rows: a duplicate row is a state the model   *)
(* can express, and uniqueness is a property of the store's constraints.   *)
(***************************************************************************)
EXTENDS Bags, FiniteSets, Integers, Sequences, TLC

\* ---------------------------------------------------------------- bounds

\* user identifiers are 1..MaxUserId
MaxUserId == 3

\* the longest result of the recipe's user_ids query (it may hold repeats)
MaxIdsLen == 3

UserIds == 1..MaxUserId

\* The host application's User table: the identifiers that refer to a user.
\* The highest identifier is left dangling (user_ids may name a user that
\* the read database does not hold).
User_objects == UserIds \ {MaxUserId}

\* ------------------------------------------------------- recipe attributes

\* BaseRecipe.slug of the one recipe class modelled
slug == "badge"

\* BaseRecipe.max_awards_per_create (settings.MAX_AWARDS_PER_CREATE)
max_awards_per_create == 2

Procs == {"p1", "p2"}

VARIABLES
    Badge_objects,  \* the Badge table: a bag of rows [slug, users_count]
    Award_objects,  \* the Award table: a bag of rows [user, badge]
    user_ids,       \* the recipe's user_ids property: [defined, ids]
    pc,             \* per process: where its current call stands
    loc,            \* per process: the locals and the result of its call
    last,           \* the last whole call (sequential specification)
    prevop          \* the name of the call before it

vars == <<Badge_objects, Award_objects, user_ids, pc, loc, last, prevop>>

\* ------------------------------------------------------------------ rows

\* Python's None in a place that otherwise holds a Badge row
None == [slug |-> "", users_count |-> -1]

BadgeRow(s, n) == [slug |-> s, users_count |-> n]

\* Award(user=user, badge=badge)
Award(u, b) == [user |-> u, badge |-> b.slug]

\* ------------------------------------------------------------ data store
\* The relational store behind the ORM (badgify/models.py and the database):
\* Badge.slug is unique, and an Award is unique per (user, badge).

\* Does the table hold a Badge row with this slug?
SlugTaken(tbl, s) == \E r \in BagToSet(tbl) : r.slug = s

\* Badge.objects.create(**kwargs): one INSERT under the unique slug.
Badge_objects_create(tbl, row) ==
    IF SlugTaken(tbl, row.slug)
    THEN [table |-> tbl, error |-> "IntegrityError"]
    ELSE [table |-> tbl (+) SetToBag({row}), error |-> "none"]

\* Two objects of one batch naming the same (user, badge)
HasRepeat(objects) ==
    \E i, j \in 1..Len(objects) : i # j /\ objects[i] = objects[j]

RECURSIVE AddAll(_, _)
AddAll(tbl, objects) ==
    IF objects = <<>> THEN tbl
    ELSE AddAll(tbl (+) SetToBag({Head(objects)}), Tail(objects))

\* a store that does not enforce the (user, badge) constraint
Award_objects_bulk_create_unconstrained(tbl, objects) ==
    [table |-> AddAll(tbl, objects), error |-> "none"]

\* Award.objects.bulk_create(objects, batch_size): at most batch_size objects
\* make one INSERT statement, which adds every row or, on a duplicate
\* (user, badge), none of them.
Award_objects_bulk_create(tbl, objects) ==
    IF HasRepeat(objects) \/ \E i \in 1..Len(objects) : BagIn(objects[i], tbl)
    THEN [table |-> tbl, error |-> "IntegrityError"]
    ELSE [table |-> AddAll(tbl, objects), error |-> "none"]

\* ------------------------------------------------------------- utilities

\* set(l) of a Python list
ToSet(l) == {l[i] : i \in 1..Len(l)}

\* list(s) of a Python set: the iteration order is the implementation's, so
\* every order of the elements is a possible result
ListsOf(S) ==
    {l \in [1..Cardinality(S) -> S] :
        \A i, j \in 1..Cardinality(S) : i # j => l[i] # l[j]}

\* badgify.utils.chunks(l, n): successive n-sized slices of l
RECURSIVE chunks(_, _)
chunks(l, n) ==
    IF Len(l) = 0 THEN <<>>
    ELSE IF Len(l) <= n THEN <<l>>
    ELSE <<SubSeq(l, 1, n)>> \o chunks(SubSeq(l, n + 1, Len(l)), n)

\* ------------------------------------------------------------ BaseRecipe

\* BaseRecipe.badge: Badge.objects.get(slug=self.slug), None on DoesNotExist
badge(btbl) ==
    IF SlugTaken(btbl, slug)
    THEN CHOOSE r \in BagToSet(btbl) : r.slug = slug
    ELSE None

\* the Badge row create_badge builds: name, image, slug, description
\* (users_count is left to the model's default, zero)
NewBadge == BadgeRow(slug, 0)

\* created set before the insert has succeeded
create_badge_insert_created_early(btbl) ==
    LET r == Badge_objects_create(btbl, NewBadge) IN
    IF r.error = "none"
    THEN [table |-> r.table, badge |-> NewBadge, created |-> TRUE,
          failed |-> FALSE, inserted |-> TRUE, raised |-> FALSE]
    ELSE [table |-> btbl, badge |-> None, created |-> TRUE,
          failed |-> TRUE, inserted |-> FALSE, raised |-> TRUE]

\* create_badge after self.badge found nothing: the try block and its
\* except IntegrityError.  The result is (badge, created, failed); inserted
\* and raised record what the store did.
create_badge_insert(btbl) ==
    LET r == Badge_objects_create(btbl, NewBadge) IN
    IF r.error = "none"
    THEN [table |-> r.table, badge |-> NewBadge, created |-> TRUE,
          failed |-> FALSE, inserted |-> TRUE, raised |-> FALSE]
    ELSE [table |-> btbl, badge |-> None, created |-> FALSE,
          failed |-> TRUE, inserted |-> FALSE, raised |-> TRUE]

\* the insert attempted although the badge was found
create_badge_found_inserts(btbl, b) ==
    [table |-> btbl, badge |-> None, created |-> FALSE,
     failed |-> Badge_objects_create(btbl, NewBadge).error # "none",
     inserted |-> FALSE,
     raised |-> Badge_objects_create(btbl, NewBadge).error # "none"]

\* create_badge with the badge found: the "already created" branch
create_badge_found(btbl, b) ==
    [table |-> btbl, badge |-> b, created |-> FALSE,
     failed |-> FALSE, inserted |-> FALSE, raised |-> FALSE]

\* create_badge as one uninterrupted call
create_badge(btbl) ==
    IF badge(btbl) # None
    THEN create_badge_found(btbl, badge(btbl))
    ELSE create_badge_insert(btbl)

\* the pre-check without the test of the badge
can_perform_awarding_no_badge_check(uids, btbl) ==
    IF ~uids.defined \/ Len(uids.ids) = 0 THEN FALSE ELSE TRUE

\* can_perform_awarding: "not self.user_ids" is true of an undefined (None)
\* and of an empty user_ids; then the badge must exist
can_perform_awarding(uids, btbl) ==
    IF ~uids.defined \/ Len(uids.ids) = 0 THEN FALSE
    ELSE IF badge(btbl) = None THEN FALSE
    ELSE TRUE

\* n copies of u
Repeat(u, n) == [i \in 1..n |-> u]

RECURSIVE UsersFrom(_, _, _)
UsersFrom(atbl, b, u) ==
    IF u > MaxUserId THEN <<>>
    ELSE Repeat(u, CopiesIn(Award(u, b), atbl)) \o UsersFrom(atbl, b, u + 1)

\* get_already_awarded_user_ids: badge.users.values_list('id', flat=True),
\* one id per Award row of the badge
get_already_awarded_user_ids(atbl, b) == UsersFrom(atbl, b, 1)

\* get_current_user_ids: self.user_ids.using(self.db_read)
get_current_user_ids(uids) == uids.ids

\* the diff without the difference: list(set(current))
get_unawarded_user_ids_no_difference(atbl, b, uids) ==
    {[ids |-> l, count |-> Len(l)] :
        l \in ListsOf(ToSet(get_current_user_ids(uids)))}

\* get_unawarded_user_ids: list(set(current) - set(already)) and its length;
\* the set of the (list, count) pairs the call may return
get_unawarded_user_ids(atbl, b, uids) ==
    LET already_awarded_ids == get_already_awarded_user_ids(atbl, b)
        current_ids == get_current_user_ids(uids)
    IN  {[ids |-> l, count |-> Len(l)] :
            l \in ListsOf(ToSet(current_ids) \ ToSet(already_awarded_ids))}

\* the users of the read database in id order
RECURSIVE UserList(_)
UserList(u) ==
    IF u > MaxUserId THEN <<>>
    ELSE (IF u \in User_objects THEN <<u>> ELSE <<>>) \o UserList(u + 1)

\* the argument of the call in save_award_objects: an Award for every
\* User whose id is in the chunk
award_objects(ids, b) ==
    LET found == SelectSeq(UserList(1), LAMBDA u : u \in ToSet(ids))
    IN  [i \in 1..Len(found) |-> Award(found[i], b)]

\* a bulk insert that takes the objects but saves only the first of them
_bulk_create_awards_first_only(atbl, objects) ==
    IF objects = <<>> THEN [table |-> atbl, exc |-> "none"]
    ELSE [table |-> Award_objects_bulk_create(atbl, <<Head(objects)>>).table,
          exc |-> "none"]

\* self._bulk_create_awards([...]): the method is defined with self as its
\* only parameter, and save_award_objects calls it with the list of
\* objects, so Python raises TypeError before the body runs; the table is
\* not touched and nothing catches the error.
_bulk_create_awards(atbl, objects) ==
    [table |-> atbl, exc |-> "TypeError"]

\* one iteration of the loop of save_award_objects
save_chunk(atbl, btbl, ids) ==
    _bulk_create_awards(atbl, award_objects(ids, badge(btbl)))

\* what one iteration hands to _bulk_create_awards
Handed(btbl, ids) == [ids |-> ids, objects |-> award_objects(ids, badge(btbl))]

RECURSIVE save_loop(_, _, _, _)
save_loop(atbl, btbl, cs, handed) ==
    IF cs = <<>> THEN [table |-> atbl, exc |-> "none", handed |-> handed]
    ELSE LET r == save_chunk(atbl, btbl, Head(cs))
             h == Append(handed, Handed(btbl, Head(cs)))
         IN  IF r.exc # "none"
             THEN [table |-> r.table, exc |-> r.exc, handed |-> h]
             ELSE save_loop(r.table, btbl, Tail(cs), h)

\* the unawarded ids handed over whole, not in chunks
save_award_objects_unchunked(atbl, btbl, un) ==
    IF Len(un.ids) = 0
    THEN [table |-> atbl, exc |-> "none", handed |-> <<>>]
    ELSE save_loop(atbl, btbl, <<un.ids>>, <<>>)

\* save_award_objects once get_unawarded_user_ids has returned un
save_award_objects(atbl, btbl, un) ==
    IF Len(un.ids) = 0
    THEN [table |-> atbl, exc |-> "none", handed |-> <<>>]
    ELSE save_loop(atbl, btbl, chunks(un.ids, max_awards_per_create), <<>>)

\* self.badge.users on a missing badge, or self.user_ids.using on an
\* undefined user_ids, is an attribute of None: AttributeError
diff_raises(b, uids) == b = None \/ ~uids.defined

\* create_awards as one uninterrupted call: the set of its possible outcomes
create_awards(atbl, btbl, uids) ==
    IF ~can_perform_awarding(uids, btbl)
    THEN {[can |-> FALSE, table |-> atbl, exc |-> "none",
           unawarded |-> <<>>, count |-> 0, handed |-> <<>>]}
    ELSE IF diff_raises(badge(btbl), uids)
    THEN {[can |-> TRUE, table |-> atbl, exc |-> "AttributeError",
           unawarded |-> <<>>, count |-> 0, handed |-> <<>>]}
    ELSE {[can |-> TRUE, table |-> r.table, exc |-> r.exc,
           unawarded |-> un.ids, count |-> un.count,
           handed |-> r.handed] :
            <<un, r>> \in
              {<<u, save_award_objects(atbl, btbl, u)>> :
                  u \in get_unawarded_user_ids(atbl, badge(btbl), uids)}}

\* the count set on the object but never saved
update_badge_users_count_no_save(btbl, atbl) ==
    LET b == badge(btbl) IN
    IF b = None
    THEN [table |-> btbl, badge |-> None, rslug |-> slug, updated |-> FALSE]
    ELSE LET new_value == Len(get_already_awarded_user_ids(atbl, b)) IN
         [table |-> btbl, badge |-> BadgeRow(b.slug, new_value),
          rslug |-> "", updated |-> b.users_count # new_value]

\* update_badge_users_count: the result is (badge, updated), or
\* (self.slug, updated) when the badge does not exist
update_badge_users_count(btbl, atbl) ==
    LET b == badge(btbl) IN
    IF b = None
    THEN [table |-> btbl, badge |-> None, rslug |-> slug, updated |-> FALSE]
    ELSE LET old_value == b.users_count
             new_value == Len(get_already_awarded_user_ids(atbl, b))
             saved == BadgeRow(b.slug, new_value)
         IN  IF old_value # new_value
             THEN [table |-> (btbl (-) SetToBag({b})) (+) SetToBag({saved}),
                   badge |-> saved, rslug |-> "", updated |-> TRUE]
             ELSE [table |-> btbl, badge |-> b, rslug |-> "",
                   updated |-> FALSE]

\* ------------------------------------------------------------- the state

\* the results the recipe's user_ids query may have
SeqsUpTo(n) == UNION {[1..k -> UserIds] : k \in 0..n}

UserIdsChoices ==
    {[defined |-> FALSE, ids |-> <<>>]} \cup
    {[defined |-> TRUE, ids |-> l] : l \in SeqsUpTo(MaxIdsLen)}

\* no call yet
NoCall ==
    [op |-> "init", can |-> FALSE, badge |-> None, rslug |-> "",
     created |-> FALSE, failed |-> FALSE, updated |-> FALSE,
     inserted |-> FALSE, raised |-> FALSE, exc |-> "none",
     unawarded |-> <<>>, count |-> 0, handed |-> <<>>,
     todo |-> <<>>, collided |-> FALSE, raced |-> FALSE,
     awards0 |-> EmptyBag, badges0 |-> EmptyBag]

\* a call that starts now: the tables as it finds them
Call(name) ==
    [NoCall EXCEPT !.op = name, !.awards0 = Award_objects,
                   !.badges0 = Badge_objects]

\* a fresh installation: no badge, no award
InitTables ==
    /\ Badge_objects = EmptyBag
    /\ Award_objects = EmptyBag
    /\ pc = [p \in Procs |-> "idle"]
    /\ loc = [p \in Procs |-> NoCall]
    /\ last = NoCall
    /\ prevop = "init"

\* ------------------------------------------- whole calls, one after another

SeqInit == InitTables /\ user_ids \in UserIdsChoices

SeqCreateBadge ==
    LET r == create_badge(Badge_objects) IN
    /\ Badge_objects' = r.table
    /\ last' = [Call("create_badge") EXCEPT
                   !.badge = r.badge, !.created = r.created,
                   !.failed = r.failed, !.inserted = r.inserted,
                   !.raised = r.raised]
    /\ prevop' = last.op
    /\ UNCHANGED <<Award_objects, user_ids, pc, loc>>

SeqCreateAwards ==
    \E r \in create_awards(Award_objects, Badge_objects, user_ids) :
        /\ Award_objects' = r.table
        /\ last' = [Call("create_awards") EXCEPT
                       !.can = r.can, !.exc = r.exc,
                       !.unawarded = r.unawarded, !.count = r.count,
                       !.handed = r.handed]
        /\ prevop' = last.op
        /\ UNCHANGED <<Badge_objects, user_ids, pc, loc>>

SeqUpdateBadgeUsersCount ==
    LET r == update_badge_users_count(Badge_objects, Award_objects) IN
    /\ Badge_objects' = r.table
    /\ last' = [Call("update_badge_users_count") EXCEPT
                   !.badge = r.badge, !.rslug = r.rslug,
                   !.updated = r.updated]
    /\ prevop' = last.op
    /\ UNCHANGED <<Award_objects, user_ids, pc, loc>>

\* another writer of the Award table (the host application awarding the
\* badge itself with Award.objects.create): one INSERT under the constraint
OtherWriter(u) ==
    /\ badge(Badge_objects) # None
    /\ LET r == Award_objects_bulk_create(
                    Award_objects, <<Award(u, badge(Badge_objects))>>)
       IN  Award_objects' = r.table
    /\ UNCHANGED <<Badge_objects, user_ids>>

SeqOtherWriter ==
    \E u \in User_objects :
        /\ OtherWriter(u)
        /\ last' = Call("other_writer")
        /\ prevop' = last.op
        /\ UNCHANGED <<pc, loc>>

SeqNext ==
    \/ SeqCreateBadge
    \/ SeqCreateAwards
    \/ SeqUpdateBadgeUsersCount
    \/ SeqOtherWriter

SeqSpec == SeqInit /\ [][SeqNext]_vars

\* ------------------------------------- concurrent calls, one query a step
\* Each process runs one call at a time; a call advances by one statement
\* that reaches the data store, so the calls of two processes interleave
\* between their queries.  pc[p] = "idle" with loc[p].op = f says that p's
\* last call, of f, has returned (or raised loc[p].exc).

Ascending(l) == \A i \in 1..(Len(l) - 1) : l[i] < l[i + 1]

\* the concurrent runs are explored for every set of eligible ids, each
\* listed once in id order
Init ==
    /\ InitTables
    /\ user_ids \in {c \in UserIdsChoices : Ascending(c.ids)}

\* a call of p that starts now
Begin(name) == [NoCall EXCEPT !.op = name]

\* create_badge, line 63: badge = self.badge
CreateBadgeGet(p) ==
    /\ pc[p] = "idle"
    /\ LET b == badge(Badge_objects) IN
       IF b # None
       THEN LET r == create_badge_found(Badge_objects, b) IN
            /\ loc' = [loc EXCEPT ![p] = [Begin("create_badge") EXCEPT
                           !.badge = r.badge, !.created = r.created,
                           !.failed = r.failed, !.inserted = r.inserted,
                           !.raised = r.raised,
                           !.badges0 = Badge_objects]]
            /\ pc' = pc
       ELSE /\ loc' = [loc EXCEPT ![p] = [Begin("create_badge") EXCEPT
                           !.badges0 = Badge_objects]]
            /\ pc' = [pc EXCEPT ![p] = "cb_insert"]
    /\ UNCHANGED <<Badge_objects, Award_objects, user_ids, last, prevop>>

\* create_badge, lines 67-80: the insert, and the return
CreateBadgeInsert(p) ==
    /\ pc[p] = "cb_insert"
    /\ LET r == create_badge_insert(Badge_objects) IN
       /\ Badge_objects' = r.table
       /\ loc' = [loc EXCEPT ![p] = [@ EXCEPT
                      !.badge = r.badge, !.created = r.created,
                      !.failed = r.failed, !.inserted = r.inserted,
                      !.raised = r.raised]]
    /\ pc' = [pc EXCEPT ![p] = "idle"]
    /\ UNCHANGED <<Award_objects, user_ids, last, prevop>>

\* create_awards, line 224: the pre-check
CanPerformAwarding(p) ==
    /\ pc[p] = "idle"
    /\ LET can == can_perform_awarding(user_ids, Badge_objects) IN
       /\ loc' = [loc EXCEPT ![p] = [Begin("create_awards") EXCEPT
                      !.can = can]]
       /\ pc' = [pc EXCEPT ![p] = IF can THEN "ca_diff" ELSE "idle"]
    /\ UNCHANGED <<Badge_objects, Award_objects, user_ids, last, prevop>>

\* save_award_objects, lines 187-190: the diff
GetUnawarded(p) ==
    /\ pc[p] = "ca_diff"
    /\ IF diff_raises(badge(Badge_objects), user_ids)
       THEN /\ loc' = [loc EXCEPT ![p].exc = "AttributeError"]
            /\ pc' = [pc EXCEPT ![p] = "idle"]
       ELSE \E un \in get_unawarded_user_ids(
                          Award_objects, badge(Badge_objects), user_ids) :
            /\ loc' = [loc EXCEPT ![p] = [@ EXCEPT
                           !.unawarded = un.ids, !.count = un.count,
                           !.todo = chunks(un.ids, max_awards_per_create)]]
            /\ pc' = [pc EXCEPT ![p] =
                          IF Len(un.ids) = 0 THEN "idle" ELSE "ca_chunk"]
    /\ UNCHANGED <<Badge_objects, Award_objects, user_ids, last, prevop>>

\* save_award_objects, lines 194-205: one iteration of the loop
SaveChunk(p) ==
    /\ pc[p] = "ca_chunk"
    /\ LET ids == Head(loc[p].todo)
           h == Handed(Badge_objects, ids)
           r == save_chunk(Award_objects, Badge_objects, ids)
           rest == IF r.exc = "none" THEN Tail(loc[p].todo) ELSE <<>>
       IN  /\ Award_objects' = r.table
           /\ loc' = [loc EXCEPT ![p] = [@ EXCEPT
                          !.handed = Append(@, h),
                          !.collided = @ \/ \E i \in 1..Len(h.objects) :
                                              BagIn(h.objects[i], Award_objects),
                          !.raced = @ \/ \E q \in Procs \ {p} :
                                           pc[q] \in {"ca_diff", "ca_chunk"},
                          !.exc = r.exc,
                          !.todo = rest]]
           /\ pc' = [pc EXCEPT ![p] =
                         IF rest = <<>> THEN "idle" ELSE "ca_chunk"]
    /\ UNCHANGED <<Badge_objects, user_ids, last, prevop>>

\* update_badge_users_count, lines 102-134, taken as one step: its read of
\* the badge, its count and its save are not interleaved with other calls
UpdateBadgeUsersCount(p) ==
    /\ pc[p] = "idle"
    /\ LET r == update_badge_users_count(Badge_objects, Award_objects) IN
       /\ Badge_objects' = r.table
       /\ loc' = [loc EXCEPT ![p] = [Begin("update_badge_users_count") EXCEPT
                      !.badge = r.badge, !.rslug = r.rslug,
                      !.updated = r.updated]]
    /\ UNCHANGED <<Award_objects, user_ids, pc, last, prevop>>

ConcOtherWriter ==
    \E u \in User_objects :
        /\ OtherWriter(u)
        /\ UNCHANGED <<pc, loc, last, prevop>>

Next ==
    \/ \E p \in Procs : CreateBadgeGet(p)
    \/ \E p \in Procs : CreateBadgeInsert(p)
    \/ \E p \in Procs : CanPerformAwarding(p)
    \/ \E p \in Procs : GetUnawarded(p)
    \/ \E p \in Procs : SaveChunk(p)
    \/ \E p \in Procs : UpdateBadgeUsersCount(p)
    \/ ConcOtherWriter

Spec == Init /\ [][Next]_vars

\* ------------------------------------------------- vocabulary of the claims

\* the users holding an Award of the badge with this slug in a table
Awarded(atbl) ==
    {u \in UserIds : BagIn([user |-> u, badge |-> slug], atbl)}

\* the number of Award rows of the badge in a table
LiveCount(atbl) ==
    BagCardinality([a \in {x \in BagToSet(atbl) : x.badge = slug}
                      |-> CopiesIn(a, atbl)])

\* the ids the recipe's user_ids names
Eligible == {user_ids.ids[i] : i \in 1..Len(user_ids.ids)}

NoRepeats(l) == \A i, j \in 1..Len(l) : i # j => l[i] # l[j]

RECURSIVE Flatten(_)
Flatten(ss) == IF ss = <<>> THEN <<>> ELSE Head(ss) \o Flatten(Tail(ss))

\* the last whole call was create_awards and it reached the diff
Diffed ==
    /\ last.op = "create_awards"
    /\ last.can
    /\ last.exc # "AttributeError"

\* C2: get_unawarded_user_ids returns a list holding exactly the eligible
\* ids that are not already awarded, each once even when the eligible
\* collection repeats an id, and a count equal to the length of that list.
C2_Unawarded ==
    Diffed =>
        /\ ToSet(last.unawarded) = Eligible \ Awarded(last.awards0)
        /\ NoRepeats(last.unawarded)
        /\ last.count = Len(last.unawarded)

\* a diff of an eligible list with a repeat against a non-empty awarded set
\* that overlaps it, leaving something unawarded
C2_Witness ==
    /\ Diffed
    /\ ~NoRepeats(user_ids.ids)
    /\ Eligible \cap Awarded(last.awards0) # {}
    /\ last.unawarded # <<>>

\* a diff of disjoint sets: the result is all of the eligible ids
C2_WitnessDisjoint ==
    /\ Diffed
    /\ Awarded(last.awards0) # {}
    /\ Eligible \cap Awarded(last.awards0) = {}
    /\ ToSet(last.unawarded) = Eligible

\* C3: of two create_awards calls in a row (same user_ids, no other writer
\* in between) the second creates no Award row: the table after it is the
\* table after the first.
C3_Idempotent ==
    (last.op = "create_awards" /\ prevop = "create_awards") =>
        Award_objects = last.awards0

C3_Witness ==
    /\ last.op = "create_awards"
    /\ prevop = "create_awards"
    /\ last.can
    /\ Eligible \cap User_objects # {}

\* C6: with user_ids undefined or empty, or with no Badge of the slug,
\* can_perform_awarding is False and create_awards raises nothing, hands
\* nothing to the insert and leaves both tables as they were; it is True
\* only with a non-empty user_ids and an existing badge.
C6_ShortCircuit ==
    last.op = "create_awards" =>
        /\ (~user_ids.defined \/ user_ids.ids = <<>>
                \/ ~SlugTaken(last.badges0, slug)) =>
              /\ ~last.can
              /\ last.exc = "none"
              /\ last.handed = <<>>
              /\ Award_objects = last.awards0
              /\ Badge_objects = last.badges0
        /\ last.can =>
              /\ user_ids.defined
              /\ user_ids.ids # <<>>
              /\ SlugTaken(last.badges0, slug)

\* create_awards called with eligible users and no badge
C6_Witness ==
    /\ last.op = "create_awards"
    /\ user_ids.defined
    /\ user_ids.ids # <<>>
    /\ ~SlugTaken(last.badges0, slug)
    /\ ~last.can

\* create_awards called on an existing badge with user_ids undefined
C6_WitnessUndefined ==
    /\ last.op = "create_awards"
    /\ ~user_ids.defined
    /\ SlugTaken(last.badges0, slug)
    /\ ~last.can

\* C7: update_badge_users_count writes the badge only when the stored
\* users_count differs from the live number of awarded users; it returns
\* (badge, True) after a write of the live count, (badge, False) on a
\* match, (slug, False) without a badge; afterwards the stored count of an
\* existing badge is the live count, and no Award row has changed.
C7_UsersCount ==
    last.op = "update_badge_users_count" =>
        /\ Award_objects = last.awards0
        /\ IF ~SlugTaken(last.badges0, slug)
           THEN /\ Badge_objects = last.badges0
                /\ last.rslug = slug
                /\ last.badge = None
                /\ ~last.updated
           ELSE LET old == CHOOSE r \in BagToSet(last.badges0) : r.slug = slug
                    live == LiveCount(Award_objects)
                IN  /\ last.updated = (old.users_count # live)
                    /\ ~last.updated => Badge_objects = last.badges0
                    /\ last.badge = [slug |-> slug, users_count |-> live]
                    /\ Badge_objects = SetToBag({last.badge})

\* a sync that found a stale count and wrote the live one
C7_Witness ==
    /\ last.op = "update_badge_users_count"
    /\ last.updated
    /\ LiveCount(Award_objects) = 2
    /\ last.badge.users_count = 2

\* a sync that found the count up to date
C7_WitnessMatch ==
    /\ last.op = "update_badge_users_count"
    /\ SlugTaken(last.badges0, slug)
    /\ ~last.updated
    /\ LiveCount(Award_objects) = 1

\* C8: the unawarded ids are partitioned into chunks of at least one and
\* at most max_awards_per_create ids, every unawarded id is in exactly one
\* chunk, and no call of the bulk insert carries more than
\* max_awards_per_create awards.
C8_Chunks ==
    Diffed =>
        LET cs == chunks(last.unawarded, max_awards_per_create) IN
        /\ \A i \in 1..Len(cs) :
              Len(cs[i]) >= 1 /\ Len(cs[i]) <= max_awards_per_create
        /\ Flatten(cs) = last.unawarded
        /\ Len(last.handed) <= Len(cs)
        /\ \A k \in 1..Len(last.handed) :
              /\ last.handed[k].ids = cs[k]
              /\ Len(last.handed[k].objects) <= max_awards_per_create

\* more unawarded ids than one chunk holds, and a chunk handed over
C8_Witness ==
    /\ Diffed
    /\ Len(last.unawarded) > max_awards_per_create
    /\ Len(last.handed) >= 1
    /\ Len(last.handed[1].objects) = max_awards_per_create

\* p's last call was of f and has ended
Ended(p, f) == pc[p] = "idle" /\ loc[p].op = f

\* C1: whatever create_awards runs have taken place, one after another or
\* interleaved, no (user, badge) pair has more than one Award row.
C1_OneAwardPerPair ==
    \A a \in BagToSet(Award_objects) : CopiesIn(a, Award_objects) <= 1

\* two runs for the badge, interleaved, have each handed over a chunk, and
\* the chunks share a user
C1_Witness ==
    /\ \A p \in Procs : Ended(p, "create_awards") /\ loc[p].handed # <<>>
    /\ \E p \in Procs : loc[p].raced
    /\ \E u \in UserIds : \A p \in Procs : u \in ToSet(loc[p].handed[1].ids)
    /\ Award_objects # EmptyBag

\* the Badge rows with the recipe's slug
SlugRows == {r \in BagToSet(Badge_objects) : r.slug = slug}

OneBadgeRow ==
    BagCardinality([r \in SlugRows |-> CopiesIn(r, Badge_objects)]) = 1

\* C4 as stated: the create_badge call whose insert hit the uniqueness
\* violation does not raise, one Badge row with the slug exists, and the
\* call reports created = False and yields the badge that now exists.
C4_RaceYieldsBadge ==
    \A p \in Procs :
        (Ended(p, "create_badge") /\ loc[p].raised) =>
            /\ loc[p].exc = "none"
            /\ OneBadgeRow
            /\ ~loc[p].created
            /\ loc[p].badge \in SlugRows

\* C4 as the code has it: that call does not raise, one Badge row with the
\* slug exists, and the call reports created = False and failed = True and
\* returns None in the place of the badge.
C4_RaceReportsFailed ==
    \A p \in Procs :
        (Ended(p, "create_badge") /\ loc[p].raised) =>
            /\ loc[p].exc = "none"
            /\ OneBadgeRow
            /\ ~loc[p].created
            /\ loc[p].failed
            /\ loc[p].badge = None

\* both calls found no badge; one inserted it, the other's insert collided
C4_Witness ==
    \E p, q \in Procs :
        /\ Ended(p, "create_badge") /\ loc[p].created
        /\ Ended(q, "create_badge") /\ loc[q].raised
        /\ loc[p].badges0 = EmptyBag /\ loc[q].badges0 = EmptyBag

\* C5: a run that handed the bulk insert a chunk with an Award that the
\* table already held raises nothing and goes on to hand over every
\* remaining chunk.
C5_ViolationSkipped ==
    \A p \in Procs :
        (Ended(p, "create_awards") /\ loc[p].collided) =>
            /\ loc[p].exc = "none"
            /\ Len(loc[p].handed) =
                   Len(chunks(loc[p].unawarded, max_awards_per_create))

\* C9: create_badge returns (badge, created, failed) with created True
\* exactly when the call inserted a Badge row, failed True exactly when its
\* insert raised the uniqueness violation, never both; with a badge of the
\* slug already there it inserts nothing and returns (that badge, False,
\* False).
C9_CreateBadgeResult ==
    \A p \in Procs :
        Ended(p, "create_badge") =>
            /\ loc[p].created = loc[p].inserted
            /\ loc[p].failed = loc[p].raised
            /\ ~(loc[p].created /\ loc[p].failed)
            /\ loc[p].created => loc[p].badge.slug = slug
            /\ SlugTaken(loc[p].badges0, slug) =>
                  /\ ~loc[p].inserted
                  /\ loc[p].badge \in BagToSet(loc[p].badges0)
                  /\ loc[p].created = FALSE
                  /\ loc[p].failed = FALSE

\* one call created the badge, one found it there, one failed on the insert
C9_Witness ==
    \E p, q \in Procs :
        /\ p # q
        /\ Ended(p, "create_badge") /\ loc[p].failed
        /\ Ended(q, "create_badge") /\ SlugTaken(loc[q].badges0, slug)
               /\ loc[q].badge # None

\* C10: after one undisturbed create_awards on an existing badge with a
\* non-empty user_ids, every eligible id of an existing user has an Award,
\* the awards created are for eligible, not yet awarded ids only, and no
\* Award that existed before is gone.
C10_AllAwarded ==
    (last.op = "create_awards" /\ last.can) =>
        /\ \A u \in Eligible \cap User_objects : u \in Awarded(Award_objects)
        /\ Awarded(Award_objects) \ Awarded(last.awards0)
              \subseteq Eligible \ Awarded(last.awards0)
        /\ \A a \in BagToSet(last.awards0) :
              CopiesIn(a, Award_objects) >= CopiesIn(a, last.awards0)
====
